---- MODULE Spec2Model ----
(***************************************************************************)
(* A model of reuse/_util.py: logging configuration, the subprocess        *)
(* wrapper, git root discovery and binary-to-text decoding.                *)
(*                                                                         *)
(* Byte strings and text are sequences of integers (byte values, code      *)
(* points).  The outcome of the last call of a function of the module is   *)
(* kept in `call`: its arguments, the events it caused in order (debug     *)
(* log records, process launches, process exits), the exception that left  *)
(* it (or "none") and the value it returned.                               *)
(***************************************************************************)
EXTENDS Integers, Sequences, FiniteSets, TLC

VARIABLES
    GIT_EXE,        \* module constant: shutil.which('git'), a path or None
    rootHandlers,   \* handlers of the root logger (installed by the application)
    reusePropagate, \* the 'reuse' logger's propagate attribute
    reuseHandlers,  \* handlers of the 'reuse' logger
    reuseLevel,     \* level of the 'reuse' logger
    setupCalls,     \* number of setup_logging calls made so far
    env,            \* what the operating system answers when a process is started
    binary_file,    \* the binary stream a caller hands to the decoder
    call            \* the last call and its outcome

vars == <<GIT_EXE, rootHandlers, reusePropagate, reuseHandlers, reuseLevel,
          setupCalls, env, binary_file, call>>

-----------------------------------------------------------------------------
(* Bounds *)

MaxSetupCalls == 4
MaxRootHandlers == 2
MaxLen == 2

-----------------------------------------------------------------------------
(* Values *)

None == "None"
GitPath == "/usr/bin/git"
NoCall == [op |-> "none"]
NoValue == [kind |-> "none"]

NOTSET == 0
WARNING == 30
Levels == {10, 20, WARNING, 40, 50}

\* A handler some other part of the process attached to the root logger.
AppHandler == [class |-> "Handler", formatter |-> "default"]
\* logging.StreamHandler() with the formatter of setup_logging.
ConsoleHandler ==
    [class |-> "StreamHandler",
     formatter |-> "%(name)s - %(levelname)s - %(message)s"]

-----------------------------------------------------------------------------
(* setup_logging *)

\* Logger.hasHandlers() of the 'reuse' logger, whose parent is the root
\* logger: the logger's own handlers, then its parent's while it propagates.
HasHandlersAlwaysFalse(handlers, propagate, parentHandlers) == FALSE

HasHandlersOwnOnly(handlers, propagate, parentHandlers) == handlers # <<>>

HasHandlers(handlers, propagate, parentHandlers) ==
    \/ handlers # <<>>
    \/ propagate /\ parentHandlers # <<>>

SetupLogging(level) ==
    /\ setupCalls < MaxSetupCalls
    /\ reuseLevel' = level
    /\ reuseHandlers' =
          IF ~HasHandlers(reuseHandlers, reusePropagate, rootHandlers)
          THEN Append(reuseHandlers, ConsoleHandler)
          ELSE reuseHandlers
    /\ setupCalls' = setupCalls + 1
    /\ call' = [op |-> "setup_logging", args |-> [level |-> level],
                events |-> <<>>, raised |-> "none", ret |-> NoValue]
    /\ UNCHANGED <<GIT_EXE, rootHandlers, reusePropagate, env, binary_file>>

-----------------------------------------------------------------------------
(* Text: bytes.decode and pathlib.Path *)

\* Number of bytes of the UTF-8 sequence a lead byte announces (0: no lead).
Utf8Need(b) ==
    IF b < 128 THEN 1
    ELSE IF b >= 194 /\ b <= 223 THEN 2
    ELSE IF b >= 224 /\ b <= 239 THEN 3
    ELSE IF b >= 240 /\ b <= 244 THEN 4
    ELSE 0

\* Is bytes[i + k] a valid k-th continuation byte of the lead byte bytes[i]?
Utf8Cont(bytes, i, k) ==
    /\ i + k <= Len(bytes)
    /\ LET lead == bytes[i]
           lo == IF k = 1 /\ lead = 224 THEN 160
                 ELSE IF k = 1 /\ lead = 240 THEN 144 ELSE 128
           hi == IF k = 1 /\ lead = 237 THEN 159
                 ELSE IF k = 1 /\ lead = 244 THEN 143 ELSE 191
       IN  bytes[i + k] >= lo /\ bytes[i + k] <= hi

\* Number of valid continuation bytes that follow the lead byte bytes[i].
Utf8Matched(bytes, i) ==
    LET n == Utf8Need(bytes[i])
        m1 == n >= 2 /\ Utf8Cont(bytes, i, 1)
        m2 == m1 /\ n >= 3 /\ Utf8Cont(bytes, i, 2)
        m3 == m2 /\ n >= 4 /\ Utf8Cont(bytes, i, 3)
    IN  IF m3 THEN 3 ELSE IF m2 THEN 2 ELSE IF m1 THEN 1 ELSE 0

Utf8CodePoint(bytes, i, n) ==
    IF n = 1 THEN bytes[i]
    ELSE IF n = 2 THEN (bytes[i] - 192) * 64 + (bytes[i + 1] - 128)
    ELSE IF n = 3 THEN (bytes[i] - 224) * 4096 + (bytes[i + 1] - 128) * 64
                       + (bytes[i + 2] - 128)
    ELSE (bytes[i] - 240) * 262144 + (bytes[i + 1] - 128) * 4096
         + (bytes[i + 2] - 128) * 64 + (bytes[i + 3] - 128)

\* bytes.decode('utf-8', errors='replace') from position i on: the text, with
\* U+FFFD for every maximal ill-formed subsequence, and whether there was none.
RECURSIVE Utf8From(_, _)
Utf8From(bytes, i) ==
    IF i > Len(bytes) THEN [ok |-> TRUE, text |-> <<>>]
    ELSE LET n == Utf8Need(bytes[i])
             m == Utf8Matched(bytes, i)
             good == n >= 1 /\ m = n - 1
             rest == Utf8From(bytes, i + 1 + m)
         IN  [ok |-> good /\ rest.ok,
              text |-> <<IF good THEN Utf8CodePoint(bytes, i, n) ELSE 65533>>
                       \o rest.text]

\* The codecs Python has, among the names encoding detection answers.
PythonCodecs == {"utf-8", "ascii", "ISO-8859-1"}

\* rawdata.decode(encoding, errors=errors)
Decode(bytes, encoding, errors) ==
    IF encoding \notin PythonCodecs
    THEN [raised |-> "LookupError", text |-> <<>>]
    ELSE IF encoding = "utf-8"
    THEN LET d == Utf8From(bytes, 1)
         IN  IF errors = "strict" /\ ~d.ok
             THEN [raised |-> "UnicodeDecodeError", text |-> <<>>]
             ELSE [raised |-> "none", text |-> d.text]
    ELSE IF encoding = "ascii"
    THEN IF errors = "strict" /\ \E i \in 1..Len(bytes) : bytes[i] >= 128
         THEN [raised |-> "UnicodeDecodeError", text |-> <<>>]
         ELSE [raised |-> "none",
               text |-> [i \in 1..Len(bytes) |->
                            IF bytes[i] < 128 THEN bytes[i] ELSE 65533]]
    ELSE [raised |-> "none", text |-> bytes]

\* The components of a path text from position i on, cur being the component
\* under way: empty components and "." are dropped (47 is "/", 46 is ".").
RECURSIVE PathParts(_, _, _)
PathParts(text, i, cur) ==
    LET done == IF cur = <<>> \/ cur = <<46>> THEN <<>> ELSE <<cur>>
    IN  IF i > Len(text) THEN done
        ELSE IF text[i] = 47 THEN done \o PathParts(text, i + 1, <<>>)
        ELSE PathParts(text, i + 1, Append(cur, text[i]))

RECURSIVE JoinParts(_)
JoinParts(parts) ==
    IF parts = <<>> THEN <<>>
    ELSE IF Len(parts) = 1 THEN parts[1]
    ELSE parts[1] \o <<47>> \o JoinParts(Tail(parts))

\* str(Path(text)) on a POSIX system.
PathOf(text) ==
    LET slashes(k) == Len(text) >= k /\ \A j \in 1..k : text[j] = 47
        root == IF slashes(2) /\ ~slashes(3) THEN <<47, 47>>
                ELSE IF slashes(1) THEN <<47>> ELSE <<>>
        s == root \o JoinParts(PathParts(text, 1, <<>>))
    IN  IF s = <<>> THEN <<46>> ELSE s

\* text[:-1]
DropLast(text) == IF text = <<>> THEN <<>> ELSE SubSeq(text, 1, Len(text) - 1)

-----------------------------------------------------------------------------
(* execute_command *)

\* ' '.join(command)
RECURSIVE Join(_)
Join(command) ==
    IF command = <<>> THEN ""
    ELSE IF Len(command) = 1 THEN command[1]
    ELSE command[1] \o " " \o Join(Tail(command))

\* kwargs.get(key, default)
Get(kwargs, key, default) ==
    IF key \in DOMAIN kwargs THEN kwargs[key] ELSE default

\* What subprocess.run leaves of a stream: its bytes when it went to a pipe.
Captured(target, data) ==
    IF target = "PIPE" THEN [captured |-> TRUE, data |-> data]
    ELSE [captured |-> FALSE, data |-> <<>>]

DebugEvent(command) == [ev |-> "debug", msg |-> "running " \o Join(command)]

LaunchEvent(command, stdout, stderr, kwargs, proc) ==
    [ev |-> "launch", command |-> command, stdout |-> stdout,
     stderr |-> stderr, cwd |-> Get(kwargs, "cwd", None), ok |-> proc.launches]

ExitEvent(command, kwargs, proc) ==
    [ev |-> "exit", command |-> command, cwd |-> Get(kwargs, "cwd", None),
     returncode |-> proc.returncode]

\* A variant that turns a failed launch into a result with exit code 127.
ExecuteCommandCatching(command, kwargs, proc) ==
    LET stdout == Get(kwargs, "stdout", "PIPE")
        stderr == Get(kwargs, "stderr", "PIPE")
    IN  IF "stdout" \in DOMAIN kwargs \/ "stderr" \in DOMAIN kwargs
        THEN [events |-> <<DebugEvent(command)>>, raised |-> "TypeError",
              ret |-> NoValue]
        ELSE IF ~proc.launches
        THEN [events |-> <<DebugEvent(command),
                           LaunchEvent(command, stdout, stderr, kwargs, proc)>>,
              raised |-> "none",
              ret |-> [kind |-> "completed", returncode |-> 127,
                       stdout |-> Captured(stdout, <<>>),
                       stderr |-> Captured(stderr, <<>>)]]
        ELSE [events |-> <<DebugEvent(command),
                           LaunchEvent(command, stdout, stderr, kwargs, proc),
                           ExitEvent(command, kwargs, proc)>>,
              raised |-> "none",
              ret |-> [kind |-> "completed", returncode |-> proc.returncode,
                       stdout |-> Captured(stdout, proc.stdout),
                       stderr |-> Captured(stderr, proc.stderr)]]

\* execute_command(command, logger, **kwargs), proc being what the operating
\* system answers for the command.  subprocess.run is called with stdout= and
\* stderr= and with **kwargs: a key given twice is a TypeError, raised before
\* any process is started.
ExecuteCommand(command, kwargs, proc) ==
    LET stdout == Get(kwargs, "stdout", "PIPE")
        stderr == Get(kwargs, "stderr", "PIPE")
    IN  IF "stdout" \in DOMAIN kwargs \/ "stderr" \in DOMAIN kwargs
        THEN [events |-> <<DebugEvent(command)>>, raised |-> "TypeError",
              ret |-> NoValue]
        ELSE IF ~proc.launches
        THEN [events |-> <<DebugEvent(command),
                           LaunchEvent(command, stdout, stderr, kwargs, proc)>>,
              raised |-> "OSError", ret |-> NoValue]
        ELSE [events |-> <<DebugEvent(command),
                           LaunchEvent(command, stdout, stderr, kwargs, proc),
                           ExitEvent(command, kwargs, proc)>>,
              raised |-> "none",
              ret |-> [kind |-> "completed", returncode |-> proc.returncode,
                       stdout |-> Captured(stdout, proc.stdout),
                       stderr |-> Captured(stderr, proc.stderr)]]

ExecuteCommandCall(command, kwargs) ==
    /\ call' = [op |-> "execute_command",
                args |-> [command |-> command, kwargs |-> kwargs]]
               @@ ExecuteCommand(command, kwargs, env.other)
    /\ UNCHANGED <<GIT_EXE, rootHandlers, reusePropagate, reuseHandlers,
                   reuseLevel, setupCalls, env, binary_file>>

-----------------------------------------------------------------------------
(* in_git_repo and find_root *)

StatusCommand(gitExe) == <<gitExe, "status">>
TopLevelCommand(gitExe) == <<gitExe, "rev-parse", "--show-toplevel">>

\* `not returncode`
NotNonPositive(returncode) == returncode <= 0

Not(returncode) == returncode = 0

Bool(b) == [kind |-> "bool", val |-> b]

\* A variant without the check of GIT_EXE.
InGitRepoRunUnguarded(gitExe, cwd, pwd, status) ==
    LET dir == IF cwd = None THEN pwd ELSE cwd
        result == ExecuteCommand(StatusCommand(gitExe), [cwd |-> dir], status)
    IN  IF result.raised # "none" THEN result
        ELSE [events |-> result.events, raised |-> "none",
              ret |-> Bool(Not(result.ret.returncode))]

\* in_git_repo(cwd), pwd being Path.cwd() and status what git status does.
InGitRepoRun(gitExe, cwd, pwd, status) ==
    IF gitExe = None
    THEN [events |-> <<>>, raised |-> "none", ret |-> Bool(FALSE)]
    ELSE LET dir == IF cwd = None THEN pwd ELSE cwd
             result == ExecuteCommand(StatusCommand(gitExe), [cwd |-> dir],
                                      status)
         IN  IF result.raised # "none" THEN result
             ELSE [events |-> result.events, raised |-> "none",
                   ret |-> Bool(Not(result.ret.returncode))]

\* The part of find_root that follows a containment check that returned True.
FindRootTopLevel(gitExe, pwd, inRepo, toplevel) ==
    LET result == ExecuteCommand(TopLevelCommand(gitExe), [cwd |-> pwd],
                                 toplevel)
        events == inRepo.events \o result.events
    IN  IF result.raised # "none"
        THEN [events |-> events, raised |-> result.raised, ret |-> NoValue]
        ELSE IF Not(result.ret.returncode)
        THEN LET d == Decode(result.ret.stdout.data, "utf-8", "strict")
             IN  IF d.raised # "none"
                 THEN [events |-> events, raised |-> d.raised, ret |-> NoValue]
                 ELSE [events |-> events, raised |-> "none",
                       ret |-> [kind |-> "path",
                                path |-> PathOf(DropLast(d.text))]]
        ELSE [events |-> events, raised |-> "none", ret |-> NoValue]

\* A variant that asks for the top level whatever the containment check says.
FindRootRunUnchecked(gitExe, pwd, status, toplevel) ==
    LET inRepo == InGitRepoRun(gitExe, pwd, pwd, status)
    IN  IF inRepo.raised # "none" THEN inRepo
        ELSE FindRootTopLevel(gitExe, pwd, inRepo, toplevel)

\* find_root(), pwd being Path.cwd(), status and toplevel what the two git
\* commands do.
FindRootRun(gitExe, pwd, status, toplevel) ==
    LET inRepo == InGitRepoRun(gitExe, pwd, pwd, status)
    IN  IF inRepo.raised # "none" THEN inRepo
        ELSE IF inRepo.ret.val
        THEN FindRootTopLevel(gitExe, pwd, inRepo, toplevel)
        ELSE [events |-> inRepo.events, raised |-> "none", ret |-> NoValue]

InGitRepo(cwd) ==
    /\ call' = [op |-> "in_git_repo", args |-> [cwd |-> cwd]]
               @@ InGitRepoRun(GIT_EXE, cwd, env.pwd, env.status)
    /\ UNCHANGED <<GIT_EXE, rootHandlers, reusePropagate, reuseHandlers,
                   reuseLevel, setupCalls, env, binary_file>>

FindRoot ==
    /\ call' = [op |-> "find_root", args |-> <<>>]
               @@ FindRootRun(GIT_EXE, env.pwd, env.status, env.toplevel)
    /\ UNCHANGED <<GIT_EXE, rootHandlers, reusePropagate, reuseHandlers,
                   reuseLevel, setupCalls, env, binary_file>>

-----------------------------------------------------------------------------
(* decoded_text_from_binary *)

\* binary_file.read(size): all that is left when size is None or negative.
ReadCount(stream, size) ==
    LET left == Len(stream.data) - stream.pos
    IN  IF ~size.given \/ size.n < 0 \/ size.n > left THEN left ELSE size.n

\* decoded_text_from_binary(binary_file, size), detected being the encoding
\* chardet.detect answers for the bytes read (None when it has no answer).
DecodedText(stream, size, detected) ==
    LET n == ReadCount(stream, size)
        rawdata == SubSeq(stream.data, stream.pos + 1, stream.pos + n)
        encoding == IF detected = None THEN "utf-8" ELSE detected
        d == Decode(rawdata, encoding, "replace")
    IN  [rawdata |-> rawdata, encoding |-> encoding, raised |-> d.raised,
         ret |-> IF d.raised = "none" THEN [kind |-> "str", text |-> d.text]
                 ELSE NoValue]

\* Detection has no answer for no bytes; for other bytes it may answer any name.
DecodedTextFromBinary(size, detected) ==
    /\ ReadCount(binary_file, size) = 0 => detected = None
    /\ call' = [op |-> "decoded_text_from_binary",
                args |-> [size |-> size, detected |-> detected],
                events |-> <<>>]
               @@ DecodedText(binary_file, size, detected)
    /\ binary_file' = [binary_file EXCEPT
                          !.pos = @ + ReadCount(binary_file, size)]
    /\ UNCHANGED <<GIT_EXE, rootHandlers, reusePropagate, reuseHandlers,
                   reuseLevel, setupCalls, env>>

-----------------------------------------------------------------------------
(* Specifications *)

BytesUpTo(alphabet, n) == UNION {[1..k -> alphabet] : k \in 0..n}

\* Bytes git may write: "\n", "/", "a" and a byte no UTF-8 text contains.
GitBytes == {10, 47, 97, 255}
\* Bytes of a stream: "A", the two bytes of U+00E9, and an invalid byte.
TextBytes == {65, 195, 169, 255}
ExitCodes == {0, 128, -15}
Dirs == {"/tmp", "/tmp/example-repo"}
Commands == {<<"true">>, <<"ls", "-l">>, <<"nonexistent">>}
DetectedEncodings == {None, "utf-8", "ascii", "ISO-8859-1", "EUC-TW"}
Sizes == {[given |-> FALSE, n |-> 0]}
            \cup {[given |-> TRUE, n |-> k] : k \in (-1)..MaxLen}

\* What starting a process can come to.
ProcOutcomesUpTo(n) ==
    {[launches |-> FALSE, returncode |-> 0, stdout |-> <<>>, stderr |-> <<>>]}
    \cup {[launches |-> TRUE, returncode |-> c, stdout |-> out, stderr |-> <<>>] :
             c \in ExitCodes, out \in BytesUpTo(GitBytes, n)}

ProcOutcomes == ProcOutcomesUpTo(MaxLen)

\* git status: nothing reads what it writes, one byte less of it is drawn.
StatusOutcomes == ProcOutcomesUpTo(MaxLen - 1)

DefaultProc ==
    [launches |-> TRUE, returncode |-> 0, stdout |-> <<>>, stderr |-> <<>>]

KwargsSets ==
    {kw \in UNION {[keys -> {"PIPE", "DEVNULL", "/tmp"}] :
                      keys \in SUBSET {"cwd", "stdout", "stderr"}} :
        /\ "cwd" \in DOMAIN kw => kw["cwd"] = "/tmp"
        /\ "stdout" \in DOMAIN kw => kw["stdout"] # "/tmp"
        /\ "stderr" \in DOMAIN kw => kw["stderr"] # "/tmp"}

NoEnv ==
    [pwd |-> "/tmp", status |-> DefaultProc, toplevel |-> DefaultProc,
     other |-> DefaultProc]
NoStream == [data |-> <<>>, pos |-> 0]

InitLogger ==
    /\ rootHandlers \in {[i \in 1..n |-> AppHandler] : n \in 0..MaxRootHandlers}
    /\ reusePropagate \in BOOLEAN
    /\ reuseHandlers = <<>>
    /\ reuseLevel = NOTSET
    /\ setupCalls = 0

DefaultLogger ==
    /\ rootHandlers = <<>>
    /\ reusePropagate = TRUE
    /\ reuseHandlers = <<>>
    /\ reuseLevel = NOTSET
    /\ setupCalls = 0

\* setup_logging in a process whose root logger has any number of handlers.
InitLogging ==
    /\ InitLogger
    /\ GIT_EXE = GitPath
    /\ env = NoEnv
    /\ binary_file = NoStream
    /\ call = NoCall

NextLogging == \E level \in Levels : SetupLogging(level)

SpecLogging == InitLogging /\ [][NextLogging]_vars

\* execute_command on any command, with any keyword arguments.
InitExec ==
    /\ DefaultLogger
    /\ GIT_EXE = GitPath
    /\ env \in {[NoEnv EXCEPT !.other = p] : p \in ProcOutcomes}
    /\ binary_file = NoStream
    /\ call = NoCall

NextExec ==
    \E command \in Commands, kwargs \in KwargsSets :
        ExecuteCommandCall(command, kwargs)

SpecExec == InitExec /\ [][NextExec]_vars

\* in_git_repo and find_root, with git installed or not, whatever git does.
InitGit ==
    /\ DefaultLogger
    /\ GIT_EXE \in {None, GitPath}
    /\ env \in {[pwd |-> d, status |-> s, toplevel |-> t, other |-> DefaultProc] :
                   d \in Dirs, s \in StatusOutcomes, t \in ProcOutcomes}
    /\ binary_file = NoStream
    /\ call = NoCall

NextGit ==
    \/ \E cwd \in Dirs \cup {None} : InGitRepo(cwd)
    \/ FindRoot

SpecGit == InitGit /\ [][NextGit]_vars

\* decoded_text_from_binary on any stream, whatever detection answers.
InitText ==
    /\ DefaultLogger
    /\ GIT_EXE = GitPath
    /\ env = NoEnv
    /\ binary_file \in {[data |-> d, pos |-> 0] : d \in BytesUpTo(TextBytes, MaxLen)}
    /\ call = NoCall

NextText ==
    \E size \in Sizes, detected \in DetectedEncodings :
        DecodedTextFromBinary(size, detected)

SpecText == InitText /\ [][NextText]_vars

Init ==
    /\ InitLogger
    /\ GIT_EXE \in {None, GitPath}
    /\ env \in {[pwd |-> d, status |-> s, toplevel |-> t, other |-> o] :
                   d \in Dirs, s \in StatusOutcomes, t \in ProcOutcomes,
                   o \in ProcOutcomes}
    /\ binary_file \in {[data |-> d, pos |-> 0] : d \in BytesUpTo(TextBytes, MaxLen)}
    /\ call = NoCall

Next == NextLogging \/ NextExec \/ NextGit \/ NextText

Spec == Init /\ [][Next]_vars

-----------------------------------------------------------------------------
(* Properties *)

Launches == {i \in DOMAIN call.events : call.events[i].ev = "launch"}
FailedLaunches == {i \in Launches : ~call.events[i].ok}
GitCall == call.op \in {"in_git_repo", "find_root"}

\* C1 (as stated): whichever of stdout and stderr the caller gives, a command
\* that can be started is started exactly once, with the caller's target for
\* each stream given and a pipe for each stream left out, and execute_command
\* returns the completed process.
C1_OverridesHonoured ==
    (call.op = "execute_command" /\ env.other.launches) =>
        /\ call.raised = "none"
        /\ call.ret.kind = "completed"
        /\ Cardinality(Launches) = 1
        /\ \A i \in Launches :
              /\ call.events[i].stdout = Get(call.args.kwargs, "stdout", "PIPE")
              /\ call.events[i].stderr = Get(call.args.kwargs, "stderr", "PIPE")

\* C2 (as stated): after two or more calls of setup_logging the 'reuse'
\* logger has exactly one handler.
C2_ExactlyOneHandler == setupCalls >= 2 => Len(reuseHandlers) = 1

\* C2 (amended): starting from a 'reuse' logger without handlers, after one
\* or more calls of setup_logging the logger has exactly one handler when no
\* logger it propagates to has a handler, and none otherwise; a call made
\* when the logger has a handler changes nothing but the level.
C2_OneHandlerUnlessAncestorHasOne ==
    /\ [](setupCalls >= 1 =>
             Len(reuseHandlers) =
                IF reusePropagate /\ rootHandlers # <<>> THEN 0 ELSE 1)
    /\ [][(setupCalls' = setupCalls + 1 /\ reuseHandlers # <<>>) =>
             /\ reuseHandlers' = reuseHandlers
             /\ UNCHANGED <<GIT_EXE, rootHandlers, reusePropagate, env,
                            binary_file>>]_vars

C2_Witness == setupCalls >= 2 /\ Len(reuseHandlers) = 1

\* C3: without a git executable in_git_repo returns False for every
\* directory and find_root returns None, no process is started (nothing is
\* even logged), and no call changes GIT_EXE.
C3_GitAbsentShortCircuits ==
    /\ []((GIT_EXE = None /\ GitCall) =>
             /\ call.events = <<>>
             /\ call.raised = "none"
             /\ call.ret = IF call.op = "in_git_repo" THEN Bool(FALSE)
                           ELSE NoValue)
    /\ [][GIT_EXE' = GIT_EXE]_vars

C3_Witness ==
    /\ GIT_EXE = None
    /\ call.op = "in_git_repo"
    /\ call.args.cwd = None
    /\ call.ret = Bool(FALSE)

\* stdout without its trailing newline, if it has one.
StripNewline(bytes) ==
    IF bytes # <<>> /\ bytes[Len(bytes)] = 10 THEN DropLast(bytes) ELSE bytes

BothQueriesSucceed ==
    /\ GIT_EXE # None
    /\ env.status.launches /\ env.status.returncode = 0
    /\ env.toplevel.launches /\ env.toplevel.returncode = 0

\* C4 (as stated, for output that is UTF-8 text): when both git queries exit
\* with code 0, find_root returns the path named by the standard output of
\* the top-level query without its trailing newline, and without any other
\* character removed.
C4_TopLevelMinusNewline ==
    (/\ call.op = "find_root" /\ BothQueriesSucceed
     /\ Utf8From(env.toplevel.stdout, 1).ok) =>
        /\ call.raised = "none"
        /\ call.ret.kind = "path"
        /\ call.ret.path =
              PathOf(Utf8From(StripNewline(env.toplevel.stdout), 1).text)

\* C5: in_git_repo returns True exactly when git status exits with code 0;
\* find_root returns None when either query exits with another code; no
\* exception leaves the call in these cases.
C5_NonZeroExitIsOrdinary ==
    /\ (call.op = "in_git_repo" /\ GIT_EXE # None /\ env.status.launches) =>
          /\ call.raised = "none"
          /\ call.ret = Bool(env.status.returncode = 0)
    /\ (/\ call.op = "find_root" /\ GIT_EXE # None /\ env.status.launches
        /\ \/ env.status.returncode # 0
           \/ env.toplevel.launches /\ env.toplevel.returncode # 0) =>
          /\ call.raised = "none"
          /\ call.ret = NoValue

C5_Witness ==
    /\ call.op = "find_root" /\ GIT_EXE # None
    /\ env.status.launches /\ env.status.returncode = 0
    /\ env.toplevel.launches /\ env.toplevel.returncode # 0
    /\ call.ret = NoValue

\* C6: a command that cannot be started makes execute_command raise, without
\* a result; a launch that fails raises the launch error itself; a command
\* that starts is waited for, and the result has the exit code of the
\* process, whatever it is.
C6_LaunchFailurePropagates ==
    call.op = "execute_command" =>
        /\ ~env.other.launches => (call.raised # "none" /\ call.ret = NoValue)
        /\ FailedLaunches # {} => call.raised = "OSError"
        /\ (Launches # {} /\ FailedLaunches = {}) =>
              /\ call.raised = "none"
              /\ call.events[Len(call.events)].ev = "exit"
              /\ call.ret.kind = "completed"
              /\ call.ret.returncode = env.other.returncode

C6_Witness ==
    /\ call.op = "execute_command"
    /\ call.ret.kind = "completed"
    /\ call.ret.returncode # 0

\* C7 (as stated): decoded_text_from_binary returns a string for every
\* stream and every answer of encoding detection: the bytes read, decoded
\* with the detected encoding or with UTF-8, undecodable bytes replaced.
C7_DecodeNeverFails ==
    call.op = "decoded_text_from_binary" =>
        /\ call.raised = "none"
        /\ call.ret.kind = "str"

\* C8 (as stated): when every process they start is launched, in_git_repo
\* and find_root return a boolean, a path or None, whatever the exit codes
\* and the bytes written.
C8_OnlyLaunchFailuresPropagate ==
    (GitCall /\ FailedLaunches = {}) =>
        /\ call.raised = "none"
        /\ call.ret.kind \in {"bool", "path", "none"}

\* C9: find_root starts at most two processes, git status first; it asks for
\* the top level only after git status has exited with code 0 in the same
\* directory, never after another exit code or without git; and every
\* launch comes right after the debug record of its command.
C9_QueriesOrdered ==
    call.op = "find_root" =>
        LET ev == call.events
            isStatus(i) == ev[i].command = StatusCommand(GIT_EXE)
            isTopLevel(i) == ev[i].command = TopLevelCommand(GIT_EXE)
        IN  /\ Cardinality(Launches) <= 2
            /\ Cardinality({i \in Launches : isStatus(i)}) <= 1
            /\ Cardinality({i \in Launches : isTopLevel(i)}) <= 1
            /\ \A i \in Launches :
                  /\ isStatus(i) \/ isTopLevel(i)
                  /\ i > 1 /\ ev[i - 1] = DebugEvent(ev[i].command)
                  /\ ev[i].cwd = env.pwd
                  /\ isTopLevel(i) =>
                        \E j \in 1..(i - 1) :
                            /\ ev[j].ev = "exit"
                            /\ ev[j].command = StatusCommand(GIT_EXE)
                            /\ ev[j].cwd = ev[i].cwd
                            /\ ev[j].returncode = 0
            /\ GIT_EXE = None => ev = <<>>
            /\ (\E j \in DOMAIN ev :
                   /\ ev[j].ev = "exit"
                   /\ ev[j].command = StatusCommand(GIT_EXE)
                   /\ ev[j].returncode # 0) => Cardinality(Launches) = 1

C9_Witness ==
    /\ call.op = "find_root"
    /\ Cardinality(Launches) = 2
    /\ call.ret.kind = "path"

\* C10: a call of setup_logging attaches the console handler exactly when
\* neither the 'reuse' logger nor a logger it propagates to has a handler;
\* while the root logger it propagates to has one, the 'reuse' logger keeps
\* none of its own; its level is the level of the latest call.
C10_GuardLooksAtHierarchy ==
    /\ [][setupCalls' = setupCalls + 1 =>
             /\ reuseHandlers' =
                   IF reuseHandlers = <<>>
                      /\ ~(reusePropagate /\ rootHandlers # <<>>)
                   THEN Append(reuseHandlers, ConsoleHandler)
                   ELSE reuseHandlers
             /\ reuseLevel' = call'.args.level]_vars
    /\ []((reusePropagate /\ rootHandlers # <<>>) => reuseHandlers = <<>>)
    /\ [](call.op = "setup_logging" => reuseLevel = call.args.level)

C10_Witness ==
    /\ rootHandlers # <<>> /\ reusePropagate
    /\ setupCalls >= 2
    /\ reuseHandlers = <<>>
    /\ call.op = "setup_logging" /\ reuseLevel = call.args.level

====
